---- MODULE Spec2Model ----
(***************************************************************************)
(* dir_diff: manifest build / diff / copy pipeline of dir_diff_multi.py.   *)
(*                                                                         *)
(* The model follows the main thread of generate_manifest and              *)
(* extract_differential through its steps, and the tasks of the            *)
(* ThreadPoolExecutor that build_manifest and copy_files create.           *)
(***************************************************************************)
EXTENDS Integers, Sequences, FiniteSets, TLC

\* ------------------------------------------------------------------ bounds

\* Number of distinct relative paths a tree or a manifest may name.
MaxFiles == 2
\* Largest explicit worker count passed to build_manifest(directory, threads).
MaxThreads == 2

\* ------------------------------------------------------- program constants

\* hash_file(path, block_size=65536)
BlockSize == 65536
\* auto_threads(multiplier=4, minimum=4, maximum=64)
Multiplier == 4
MinThreads == 4
MaxAutoThreads == 64
\* cores = os.cpu_count() or 4
DefaultCores == 4

\* -------------------------------------------------------------- the domain

PathNames == <<"a.txt", "b.txt", "c.txt", "d.txt">>
Paths == {PathNames[i] : i \in 1..MaxFiles}

\* File contents are byte strings. The i-th path holds i bytes of value i; a
\* baseline taken before the file was edited saw as many bytes of value i + 1
\* (an edit that keeps the size).
IndexOf(p) == CHOOSE i \in 1..Len(PathNames) : PathNames[i] = p
ContentOf(p) == [j \in 1..IndexOf(p) |-> IndexOf(p)]
EarlierContentOf(p) == [j \in 1..IndexOf(p) |-> IndexOf(p) + 1]
\* A directory entry that os.walk lists as a file but open() cannot read
\* (a dangling symbolic link).
Broken == <<-1>>
\* What an output file held before the run.
Stale == <<9, 9, 9>>

NoError == [type |-> "none", item |-> ""]
Err(t, p) == [type |-> t, item |-> p]

\* All orderings of a finite set, as duplicate-free sequences.
RECURSIVE Perms(_)
Perms(S) ==
    IF S = {} THEN {<<>>}
    ELSE UNION {{<<x>> \o s : s \in Perms(S \ {x})} : x \in S}

Range(s) == {s[i] : i \in DOMAIN s}

\* ------------------------------------------------------------ auto_threads

Max2(a, b) == IF a >= b THEN a ELSE b
Min2(a, b) == IF a <= b THEN a ELSE b

\* os.cpu_count() may return None (0 here): "os.cpu_count() or 4".
auto_threads(cpu_count) ==
    LET cores == IF cpu_count = 0 THEN DefaultCores ELSE cpu_count
        threads == cores * Multiplier
    IN  Max2(MinThreads, Min2(threads, MaxAutoThreads))

\* ---------------------------------------------------------------- hashing

\* f.read(block_size) at offset pos: at most block_size bytes, empty at EOF.
ReadChunk(content, pos, block_size) ==
    SubSeq(content, pos + 1, Min2(Len(content), pos + block_size))

\* The loop of hash_file: every chunk is fed to the hasher until a read
\* returns nothing; "fed" is what the hasher has been updated with.
RECURSIVE HashLoop(_, _, _, _)
HashLoop(content, pos, fed, block_size) ==
    LET chunk == ReadChunk(content, pos, block_size)
    IN  IF chunk = <<>> THEN fed
        ELSE HashLoop(content, pos + Len(chunk), fed \o chunk, block_size)

\* hexdigest(): SHA-256 is taken to be collision free, so a digest is
\* determined by, and determines, the bytes fed to it.
HexDigest(fed) == [sha256 |-> fed]

hash_file(content) == HexDigest(HashLoop(content, 0, <<>>, BlockSize))

\* os.path.getsize
getsize(content) == Len(content)

\* The value a manifest holds for one file.
Entry(h, s) == [hash |-> h, size |-> s]
EntryOf(content) == Entry(hash_file(content), getsize(content))

\* --------------------------------------------------------- python values

\* json.load returns a dict or a list; a dict maps keys to entry objects,
\* which are functions from field names to values.
PyDict(f) == [type |-> "dict", items |-> f]
PyList == [type |-> "list", items |-> <<>>]
EmptyMap == [p \in {} |-> 0]
Keys(d) == DOMAIN d.items

\* ---------------------------------------------------------- manifest store

\* A manifest file: absent, or a text that is not JSON ("invalid"), a JSON
\* array, or a JSON object given by its members in file order.
NoFile == [exists |-> FALSE, syntax |-> "none", members |-> <<>>]
TextFile(syntax, members) == [exists |-> TRUE, syntax |-> syntax, members |-> members]

\* The decimal text json.dump writes for an int, and the int json.load reads
\* from it.
RECURSIVE ToDigits(_)
ToDigits(n) == IF n < 10 THEN <<n>> ELSE ToDigits(n \div 10) \o <<n % 10>>
RECURSIVE FromDigits(_)
FromDigits(ds) ==
    IF Len(ds) = 1 THEN ds[1]
    ELSE 10 * FromDigits(SubSeq(ds, 1, Len(ds) - 1)) + ds[Len(ds)]

\* JSON values: json.dump writes a str as a string and an int as a number;
\* json.load reads them back by their JSON type.
JsonString(v) == [json |-> "string", text |-> v]
JsonNumber(n) == [json |-> "number", text |-> ToDigits(n)]
\* An entry dict as a JSON object: "hash" holds a str, "size" an int.
JsonObject(e) ==
    [k \in DOMAIN e |-> IF k = "size" THEN JsonNumber(e[k]) ELSE JsonString(e[k])]
PyValue(j) == IF j.json = "number" THEN FromDigits(j.text) ELSE j.text
PyObject(o) == [k \in DOMAIN o |-> PyValue(o[k])]

\* json.load on an object: members are inserted left to right, so a repeated
\* key keeps its last value.
RECURSIVE DictOfMembers(_)
DictOfMembers(members) ==
    IF members = <<>> THEN EmptyMap
    ELSE LET n == Len(members)
             init == DictOfMembers(SubSeq(members, 1, n - 1))
             last == members[n]
         IN  [k \in DOMAIN init \cup {last[1]} |->
                 IF k = last[1] THEN PyObject(last[2]) ELSE init[k]]

\* load_manifest: open(manifest_file, "r") then json.load(f).
load_manifest(file) ==
    IF ~file.exists THEN [error |-> Err("FileNotFoundError", "manifest"), value |-> PyList]
    ELSE IF file.syntax = "invalid"
         THEN [error |-> Err("JSONDecodeError", "manifest"), value |-> PyList]
    ELSE IF file.syntax = "array" THEN [error |-> NoError, value |-> PyList]
    ELSE [error |-> NoError, value |-> PyDict(DictOfMembers(file.members))]

\* save_manifest that writes the fingerprints only.
save_manifest_hash_only(manifest, order) ==
    TextFile("object", [i \in 1..Len(order) |->
        <<order[i], [k \in {"hash"} |-> JsonString(manifest.items[order[i]].hash)]>>])

\* save_manifest: json.dump writes the dict's items in the dict's own order,
\* which is the order "order" in which the keys were inserted.
save_manifest(manifest, order) ==
    TextFile("object", [i \in 1..Len(order) |->
        <<order[i], JsonObject(manifest.items[order[i]])>>])

\* -------------------------------------------------------------- comparison

\* diff_manifests with the entries compared whole ("man1[f] != man2[f]"), so
\* that a size that differs counts as a change.
diff_manifests_whole_entry(man1, man2) ==
    LET files1 == Keys(man1)
        files2 == Keys(man2)
    IN  [error |-> NoError,
         added |-> files2 \ files1,
         removed |-> files1 \ files2,
         changed |-> {f \in files1 \cap files2 : man1.items[f] # man2.items[f]}]

\* diff_manifests with the changed list filled from all of man2's keys
\* ("man1.get(f, {}).get('hash') != man2[f]['hash']"), so that a key only
\* man2 has is listed as changed too.
diff_manifests_changed_over_new(man1, man2) ==
    LET files1 == Keys(man1)
        files2 == Keys(man2)
    IN  [error |-> NoError,
         added |-> files2 \ files1,
         removed |-> files1 \ files2,
         changed |-> {f \in files2 : \/ f \notin files1
                                     \/ man1.items[f]["hash"] # man2.items[f]["hash"]}]

\* diff_manifests(man1, man2): the three lists as sets (a list is filled
\* from a set, in the set's iteration order), or the exception raised.
diff_manifests(man1, man2) ==
    IF man1.type # "dict" \/ man2.type # "dict"
    THEN [error |-> Err("AttributeError", "keys"), added |-> {}, removed |-> {}, changed |-> {}]
    ELSE LET files1 == Keys(man1)
             files2 == Keys(man2)
             common == files1 \cap files2
             nohash == {f \in common : "hash" \notin DOMAIN man1.items[f]
                                       \/ "hash" \notin DOMAIN man2.items[f]}
         IN  IF nohash # {}
             THEN [error |-> Err("KeyError", "hash"), added |-> {}, removed |-> {}, changed |-> {}]
             ELSE [error |-> NoError,
                   added |-> files2 \ files1,
                   removed |-> files1 \ files2,
                   changed |-> {f \in common : man1.items[f]["hash"] # man2.items[f]["hash"]}]

\* ------------------------------------------------------------ output tree

\* The output directory maps a path to a node: a file with its content and
\* its mode (the owner may write it, "rw", or not, "r"), or a directory.
ModeNode(content, mode) == [kind |-> "file", content |-> content, mode |-> mode]
FileNode(content) == ModeNode(content, "rw")
DirNode == [kind |-> "dir", content |-> <<>>, mode |-> "rw"]
Join(dir, name) == dir \o "/" \o name
\* Relative paths of the model have one component.
Basename(p) == p

IsDir(tree, p) == p \in DOMAIN tree /\ tree[p].kind = "dir"

\* shutil.copy2(src, dst): "if os.path.isdir(dst): dst = os.path.join(dst,
\* os.path.basename(src))".
CopyTarget(tree, rel_path) ==
    IF IsDir(tree, rel_path) THEN Join(rel_path, Basename(rel_path)) ELSE rel_path

PutFile(tree, p, content, mode) ==
    [q \in DOMAIN tree \cup {p} |-> IF q = p THEN ModeNode(content, mode) ELSE tree[q]]

\* What the output directory holds at a path before the run: nothing, a file,
\* or a directory that holds a file or a directory of the same name.
OutShapes == {"none", "file", "dir_file", "dir_dir"}
OutTreeOf(shape) ==
    LET dirs == {p \in Paths : shape[p] \in {"dir_file", "dir_dir"}}
        tops == {p \in Paths : shape[p] # "none"}
        nested == {Join(p, Basename(p)) : p \in dirs}
        Owner(q) == CHOOSE p \in dirs : Join(p, Basename(p)) = q
    IN  [q \in tops \cup nested |->
            IF q \in tops
            THEN (IF shape[q] = "file" THEN FileNode(Stale) ELSE DirNode)
            ELSE (IF shape[Owner(q)] = "dir_file" THEN FileNode(Stale) ELSE DirNode)]
OutTrees == {OutTreeOf(shape) : shape \in [Paths -> OutShapes]}

\* ------------------------------------------------------------------- state

VARIABLES
    entry,         \* the entry point that runs: "generate", "extract", or a direct call
    cpu_count,     \* os.cpu_count(), 0 for None
    threadsArg,    \* the threads argument of build_manifest / copy_files, 0 for None
    prevThreads,   \* the threads argument of the build_manifest call before this one
    src,           \* the source tree: [exists, files, readonly], files: path -> content
    privileged,    \* the process runs as root: file modes do not stop it
    outArg,        \* output_dir is given
    saveArg,       \* save_new_manifest is given
    out,           \* the output tree: path -> node (empty until the run looks at it)
    out0,          \* the output tree as copy_files found it
    oldFile,       \* the file at old_manifest_file
    saveFile,      \* the file at save_new_manifest
    step,          \* the step the main thread is in
    phase,         \* inside build_manifest / copy_files: walk, submit, collect, shutdown
    old_manifest,  \* extract_differential's old_manifest (diff_manifests' man1)
    new_manifest,  \* the manifest build_manifest returned (diff_manifests' man2)
    file_paths,    \* build_manifest's file_paths
    futures,       \* the futures of the executor in use, in submission order
    collected,     \* the futures as_completed has yielded
    manifest,      \* build_manifest's local manifest
    error,         \* the exception the main thread is raising
    added,         \* diff_manifests' lists
    removed,
    changed,
    written,       \* the output paths copy tasks have written in this run
    prevRun,       \* what the run before this one, on the same inputs, left
    progress_queue \* the front-end's queue.Queue of (progress, total) pairs

vars == <<entry, cpu_count, threadsArg, prevThreads, src, privileged, outArg, saveArg, out, out0, oldFile,
          saveFile, step, phase, old_manifest, new_manifest, file_paths, futures,
          collected, manifest, error, added, removed, changed, written, prevRun,
          progress_queue>>

envVars == <<entry, cpu_count, threadsArg, prevThreads, src, privileged, outArg, saveArg,
             oldFile, prevRun, progress_queue>>
diffVars == <<added, removed, changed>>
poolVars == <<futures, collected>>

\* ------------------------------------------------------------ thread pool

NoData == [hash |-> HexDigest(<<>>), size |-> -1]
Future(fn, path) == [fn |-> fn, path |-> path, st |-> "pending", data |-> NoData, exc |-> NoError]

Finished(fut) == fut.st \in {"done", "failed"}
Active(fut) == fut.st \in {"running", "hashed"}

\* max_workers of the executor: "if threads is None: threads = auto_threads()".
Threads == IF threadsArg = 0 THEN auto_threads(cpu_count) ELSE threadsArg

\* PoolDrained for shutdown(wait=False): the main thread goes on at once.
PoolNotAwaited(futs) == TRUE

\* PoolDrained that waits for the tasks that are running only: the work
\* items still queued are left behind.
PoolNoneRunning(futs) == \A i \in DOMAIN futs : ~Active(futs[i])

\* ThreadPoolExecutor.__exit__ is shutdown(wait=True): it returns when every
\* submitted work item has run.
PoolDrained(futs) == \A i \in DOMAIN futs : Finished(futs[i])

\* WorkerStart with worker threads that run one work item each and exit: the
\* items past the first max_workers stay queued.
WorkerStartOneTaskEach(i) ==
    /\ i \in DOMAIN futures
    /\ futures[i].st = "pending"
    /\ \A j \in 1..(i - 1) : futures[j].st # "pending"
    /\ i <= Threads
    /\ futures' = [futures EXCEPT ![i].st = "running"]
    /\ UNCHANGED <<envVars, out, out0, saveFile, step, phase, old_manifest, new_manifest,
                   file_paths, collected, manifest, error, diffVars, written>>

\* A worker thread takes the oldest queued work item; at most max_workers run.
WorkerStart(i) ==
    /\ i \in DOMAIN futures
    /\ futures[i].st = "pending"
    /\ \A j \in 1..(i - 1) : futures[j].st # "pending"
    /\ Cardinality({j \in DOMAIN futures : Active(futures[j])}) < Threads
    /\ futures' = [futures EXCEPT ![i].st = "running"]
    /\ UNCHANGED <<envVars, out, out0, saveFile, step, phase, old_manifest, new_manifest,
                   file_paths, collected, manifest, error, diffVars, written>>

\* ----------------------------------------------------------- hash tasks

\* HashRead with one hasher shared by the workers: the digest of a file
\* takes in the bytes a task running at the same time has fed.
HashReadSharedHasher(i) ==
    /\ i \in DOMAIN futures
    /\ futures[i].fn = "hash"
    /\ futures[i].st = "running"
    /\ LET p == futures[i].path
           content == src.files[p]
           others == {j \in DOMAIN futures : futures[j].st = "hashed"}
           fed == IF others = {} THEN content
                  ELSE src.files[futures[CHOOSE j \in others : TRUE].path] \o content
       IN  futures' = IF content = Broken
                      THEN [futures EXCEPT ![i].st = "failed",
                                           ![i].exc = [type |-> "FileNotFoundError", item |-> p]]
                      ELSE [futures EXCEPT ![i].st = "hashed",
                                           ![i].data = [hash |-> HexDigest(fed), size |-> -1]]
    /\ UNCHANGED <<entry, cpu_count, threadsArg, prevThreads, src, privileged, outArg, saveArg,
                   oldFile, out, out0, saveFile, step, phase, old_manifest,
                   new_manifest, file_paths, collected, manifest, error, added,
                   removed, changed, written, prevRun, progress_queue>>

\* _hash_file_task, first half: "hash": hash_file(full_path). open() raises
\* for a file that cannot be read.
HashRead(i) ==
    /\ i \in DOMAIN futures
    /\ futures[i].fn = "hash"
    /\ futures[i].st = "running"
    /\ LET p == futures[i].path
           content == src.files[p]
       IN  futures' = IF content = Broken
                      THEN [futures EXCEPT ![i].st = "failed",
                                           ![i].exc = Err("FileNotFoundError", p)]
                      ELSE [futures EXCEPT ![i].st = "hashed",
                                           ![i].data = Entry(hash_file(content), -1)]
    /\ UNCHANGED <<envVars, out, out0, saveFile, step, phase, old_manifest, new_manifest,
                   file_paths, collected, manifest, error, diffVars, written>>

\* _hash_file_task, second half: "size": os.path.getsize(full_path); the task
\* returns (str(rel_path), {"hash": ..., "size": ...}).
HashStat(i) ==
    /\ i \in DOMAIN futures
    /\ futures[i].fn = "hash"
    /\ futures[i].st = "hashed"
    /\ LET p == futures[i].path
       IN  futures' = [futures EXCEPT ![i].st = "done",
                                      ![i].data = Entry(futures[i].data.hash,
                                                        getsize(src.files[p]))]
    /\ UNCHANGED <<envVars, out, out0, saveFile, step, phase, old_manifest, new_manifest,
                   file_paths, collected, manifest, error, diffVars, written>>

\* ---------------------------------------------------------- build_manifest

\* The files os.walk yields. A root that does not exist yields nothing:
\* os.walk ignores the error of its scandir call (onerror is None).
WalkFiles(tree) == IF tree.exists THEN DOMAIN tree.files ELSE {}

\* "for root, _, files in os.walk(directory)": file_paths in walk order.
Walk ==
    /\ step = "BuildingNew"
    /\ phase = "walk"
    /\ \E order \in Perms(WalkFiles(src)) :
          /\ file_paths' = order
          /\ phase' = IF order = <<>> THEN "shutdown" ELSE "submit"
    /\ manifest' = EmptyMap
    /\ futures' = <<>>
    /\ collected' = {}
    /\ UNCHANGED <<envVars, out, out0, saveFile, step, old_manifest, new_manifest,
                   error, diffVars, written>>

\* executor.submit(_hash_file_task, directory, fp) for the next fp.
SubmitHash ==
    /\ step = "BuildingNew"
    /\ phase = "submit"
    /\ LET n == Len(futures) + 1
       IN  /\ futures' = Append(futures, Future("hash", file_paths[n]))
           /\ phase' = IF n = Len(file_paths) THEN "collect" ELSE "submit"
    /\ UNCHANGED <<envVars, out, out0, saveFile, step, old_manifest, new_manifest,
                   file_paths, collected, manifest, error, diffVars, written>>

\* StoreEntry that rebinds the dict ("manifest = {rel_path: data}").
StoreEntryRebind(m, rel_path, data) == [k \in {rel_path} |-> data]

\* manifest[rel_path] = data
StoreEntry(m, rel_path, data) ==
    [k \in DOMAIN m \cup {rel_path} |-> IF k = rel_path THEN data ELSE m[k]]

\* CollectHash with the task's exception caught and the file skipped.
CollectHashSkipFailed(i) ==
    /\ step = "BuildingNew"
    /\ phase = "collect"
    /\ i \in DOMAIN futures
    /\ i \notin collected
    /\ futures[i].st \in {"done", "failed"}
    /\ collected' = collected \cup {i}
    /\ manifest' = IF futures[i].st = "failed" THEN manifest
                   ELSE [k \in DOMAIN manifest \cup {futures[i].path} |->
                            IF k = futures[i].path THEN futures[i].data ELSE manifest[k]]
    /\ phase' = IF collected' = DOMAIN futures THEN "shutdown" ELSE "collect"
    /\ UNCHANGED <<entry, cpu_count, threadsArg, prevThreads, src, privileged, outArg, saveArg,
                   oldFile, out, out0, saveFile, step, old_manifest, new_manifest,
                   file_paths, futures, error, added, removed, changed, written,
                   prevRun, progress_queue>>

\* One round of "for fut in as_completed(futures)": fut.result() returns the
\* task's value or raises the task's exception, which leaves the loop.
CollectHash(i) ==
    /\ step = "BuildingNew"
    /\ phase = "collect"
    /\ i \in DOMAIN futures
    /\ i \notin collected
    /\ Finished(futures[i])
    /\ collected' = collected \cup {i}
    /\ IF futures[i].st = "failed"
       THEN /\ error' = futures[i].exc
            /\ phase' = "shutdown"
            /\ UNCHANGED manifest
       ELSE /\ manifest' = StoreEntry(manifest, futures[i].path, futures[i].data)
            /\ phase' = IF collected' = DOMAIN futures THEN "shutdown" ELSE "collect"
            /\ UNCHANGED error
    /\ UNCHANGED <<envVars, out, out0, saveFile, step, old_manifest, new_manifest,
                   file_paths, futures, diffVars, written>>

\* The step that follows a build_manifest that returned.
AfterBuild ==
    IF entry = "generate" THEN (IF saveArg THEN "SavingManifest" ELSE "Done")
    ELSE IF entry = "build" THEN "Done"
    ELSE "Diffing"

\* Leaving "with ThreadPoolExecutor(...)": the pool is shut down, then either
\* the pending exception propagates (its traceback keeps the frame's locals)
\* or "return manifest" runs and the locals are gone.
ExitHashPool ==
    /\ step = "BuildingNew"
    /\ phase = "shutdown"
    /\ PoolDrained(futures)
    /\ phase' = "-"
    /\ IF error # NoError
       THEN /\ step' = "Failed"
            /\ UNCHANGED <<new_manifest, old_manifest, file_paths, futures, collected, manifest>>
       ELSE /\ new_manifest' = PyDict(manifest)
            /\ step' = AfterBuild
            /\ file_paths' = <<>>
            /\ futures' = <<>>
            /\ collected' = {}
            /\ manifest' = EmptyMap
            /\ UNCHANGED old_manifest
    /\ UNCHANGED <<envVars, out, out0, saveFile, error, diffVars, written>>

\* ------------------------------------------------------------ copy_files

\* _copy_file_task(src, dest): dest.parent.mkdir(parents=True, exist_ok=True)
\* finds the output root in place (relative paths have one component), then
\* shutil.copy2(src, dest) writes the source's bytes to its target and gives
\* it the source's mode (copystat); it raises when the source cannot be read,
\* when the target is a directory, and when the target is a file the process
\* may not write.
CopyRun(i) ==
    /\ i \in DOMAIN futures
    /\ futures[i].fn = "copy"
    /\ futures[i].st = "running"
    /\ LET p == futures[i].path
           target == CopyTarget(out, p)
       IN  IF ~src.exists \/ p \notin DOMAIN src.files \/ src.files[p] = Broken
           THEN /\ futures' = [futures EXCEPT ![i].st = "failed",
                                              ![i].exc = Err("FileNotFoundError", p)]
                /\ UNCHANGED <<out, written>>
           ELSE IF IsDir(out, target)
           THEN /\ futures' = [futures EXCEPT ![i].st = "failed",
                                              ![i].exc = Err("IsADirectoryError", p)]
                /\ UNCHANGED <<out, written>>
           ELSE IF target \in DOMAIN out /\ out[target].mode = "r" /\ ~privileged
           THEN /\ futures' = [futures EXCEPT ![i].st = "failed",
                                              ![i].exc = Err("PermissionError", p)]
                /\ UNCHANGED <<out, written>>
           ELSE /\ futures' = [futures EXCEPT ![i].st = "done"]
                /\ out' = PutFile(out, target, src.files[p],
                                  IF p \in src.readonly THEN "r" ELSE "rw")
                /\ written' = written \cup {target}
    /\ UNCHANGED <<envVars, out0, saveFile, step, phase, old_manifest, new_manifest,
                   file_paths, collected, manifest, error, diffVars>>

\* to_copy = added + changed
ToCopy == added \o changed

\* futures.append(executor.submit(_copy_file_task, src, dest)) for the next
\* rel_path of file_list.
SubmitCopy ==
    /\ step = "Copying"
    /\ phase = "submit"
    /\ LET n == Len(futures) + 1
       IN  /\ futures' = Append(futures, Future("copy", ToCopy[n]))
           /\ phase' = IF n = Len(ToCopy) THEN "collect" ELSE "submit"
    /\ UNCHANGED <<envVars, out, out0, saveFile, step, old_manifest, new_manifest,
                   file_paths, collected, manifest, error, diffVars, written>>

\* CollectCopy with the task's exception caught and dropped.
CollectCopySkipFailed(i) ==
    /\ step = "Copying"
    /\ phase = "collect"
    /\ i \in DOMAIN futures
    /\ i \notin collected
    /\ futures[i].st \in {"done", "failed"}
    /\ collected' = collected \cup {i}
    /\ phase' = IF collected' = DOMAIN futures THEN "shutdown" ELSE "collect"
    /\ UNCHANGED <<envVars, out, out0, saveFile, step, old_manifest, new_manifest,
                   file_paths, futures, manifest, error, diffVars, written>>

\* One round of "for fut in as_completed(futures): _ = fut.result()".
CollectCopy(i) ==
    /\ step = "Copying"
    /\ phase = "collect"
    /\ i \in DOMAIN futures
    /\ i \notin collected
    /\ Finished(futures[i])
    /\ collected' = collected \cup {i}
    /\ IF futures[i].st = "failed"
       THEN /\ error' = futures[i].exc
            /\ phase' = "shutdown"
       ELSE /\ phase' = IF collected' = DOMAIN futures THEN "shutdown" ELSE "collect"
            /\ UNCHANGED error
    /\ UNCHANGED <<envVars, out, out0, saveFile, step, old_manifest, new_manifest,
                   file_paths, futures, manifest, diffVars, written>>

\* AfterCopy that saves whether or not a save path was given.
AfterCopyAlwaysSave == "SavingManifest"

\* The step that follows a copy_files that returned, or a run without one.
AfterCopy == IF saveArg THEN "SavingManifest" ELSE "Done"

\* Leaving copy_files' "with ThreadPoolExecutor(...)": as in build_manifest.
ExitCopyPool ==
    /\ step = "Copying"
    /\ phase = "shutdown"
    /\ PoolDrained(futures)
    /\ phase' = "-"
    /\ IF error # NoError
       THEN /\ step' = "Failed"
            /\ UNCHANGED <<futures, collected>>
       ELSE /\ step' = AfterCopy
            /\ futures' = <<>>
            /\ collected' = {}
    /\ UNCHANGED <<envVars, out, out0, saveFile, old_manifest, new_manifest, file_paths,
                   manifest, error, diffVars, written>>

\* ------------------------------------------------------------ entry points

\* extract_differential: old_manifest = load_manifest(old_manifest_file)
LoadOld ==
    /\ step = "LoadingOld"
    /\ LET r == load_manifest(oldFile)
       IN  IF r.error # NoError
           THEN /\ error' = r.error
                /\ step' = "Failed"
                /\ UNCHANGED <<old_manifest, phase>>
           ELSE /\ old_manifest' = r.value
                /\ step' = "BuildingNew"
                /\ phase' = "walk"
                /\ UNCHANGED error
    /\ UNCHANGED <<envVars, out, out0, saveFile, new_manifest, file_paths, futures,
                   collected, manifest, diffVars, written>>

\* extract_differential: added, removed, changed = diff_manifests(...), and,
\* "if output_dir", the start of copy_files(to_copy, src_dir, output_dir):
\* output_dir.mkdir(parents=True, exist_ok=True) is the first time the run
\* looks at the output directory, which holds what the run before left, or
\* anything when no run before this one got that far.
DoDiff ==
    /\ step = "Diffing"
    /\ LET d == diff_manifests(old_manifest, new_manifest)
       IN  IF d.error # NoError
           THEN /\ error' = d.error
                /\ step' = "Failed"
                /\ UNCHANGED <<diffVars, phase, poolVars, out, out0>>
           ELSE /\ \E a \in Perms(d.added), r \in Perms(d.removed), c \in Perms(d.changed) :
                      /\ added' = a
                      /\ removed' = r
                      /\ changed' = c
                      /\ IF outArg
                         THEN /\ step' = "Copying"
                              /\ phase' = IF a \o c = <<>> THEN "shutdown" ELSE "submit"
                              /\ futures' = <<>>
                              /\ collected' = {}
                              /\ out' \in (IF prevRun.looked THEN {out} ELSE OutTrees)
                              /\ out0' = out'
                         ELSE /\ step' = AfterCopy
                              /\ UNCHANGED <<phase, poolVars, out, out0>>
                /\ UNCHANGED error
    /\ UNCHANGED <<envVars, saveFile, old_manifest, new_manifest, file_paths,
                   manifest, written>>

\* "if save_new_manifest: save_manifest(new_manifest, save_new_manifest)"
SaveNew ==
    /\ step = "SavingManifest"
    /\ \E order \in Perms(Keys(new_manifest)) :
          saveFile' = save_manifest(new_manifest, order)
    /\ step' = "Done"
    /\ UNCHANGED <<envVars, out, out0, old_manifest, new_manifest, phase, file_paths,
                   futures, collected, manifest, error, diffVars, written>>

\* ------------------------------------------------------------- environment

\* A source tree: a directory that does not exist, or one whose files hold a
\* content or cannot be read; the owner may write every file.
SourceTrees ==
    {[exists |-> FALSE, files |-> EmptyMap, readonly |-> {}]}
    \cup {[exists |-> TRUE, files |-> f, readonly |-> {}] :
            f \in UNION {{g \in [S -> {ContentOf(p) : p \in S} \cup {Broken}] :
                              \A p \in S : g[p] \in {ContentOf(p), Broken}} :
                         S \in SUBSET Paths}}

\* The members of a manifest's file, keys in the order of PathNames.
KeysInOrder(S) == SelectSeq(SubSeq(PathNames, 1, MaxFiles), LAMBDA p : p \in S)
MembersOf(f) ==
    LET ks == KeysInOrder(DOMAIN f) IN [i \in 1..Len(ks) |-> <<ks[i], JsonObject(f[ks[i]])>>]

\* Files at old_manifest_file: none, not JSON, a JSON array, an entry without
\* its "hash" field, a key given twice, and the manifests of earlier trees.
OldFiles ==
    {NoFile, TextFile("invalid", <<>>), TextFile("array", <<>>),
     TextFile("object", <<<<PathNames[1], JsonObject([size |-> 1])>>>>),
     TextFile("object", <<<<PathNames[1], JsonObject(EntryOf(EarlierContentOf(PathNames[1])))>>,
                          <<PathNames[1], JsonObject(EntryOf(ContentOf(PathNames[1])))>>>>)}
    \cup {TextFile("object", MembersOf(f)) :
            f \in UNION {{g \in [S -> {EntryOf(c) : c \in {ContentOf(p) : p \in S}
                                                   \cup {EarlierContentOf(p) : p \in S}}] :
                              \A p \in S : g[p] \in {EntryOf(ContentOf(p)),
                                                     EntryOf(EarlierContentOf(p))}} :
                         S \in SUBSET Paths}}

\* No run before this one.
NoRun == [step |-> "-", added |-> {}, removed |-> {}, changed |-> {}, written |-> {},
          out |-> EmptyMap, looked |-> FALSE]

\* Before a call: no file written, no local bound, nothing on the queue.
InitRun ==
    /\ prevRun = NoRun
    /\ progress_queue = <<>>
    /\ saveFile = NoFile
    /\ out = EmptyMap
    /\ out0 = EmptyMap
    /\ file_paths = <<>>
    /\ futures = <<>>
    /\ collected = {}
    /\ manifest = EmptyMap
    /\ error = NoError
    /\ added = <<>>
    /\ removed = <<>>
    /\ changed = <<>>
    /\ written = {}

\* os.cpu_count(): None, or the number of cores.
CpuCounts == {0, 1, 2}

\* generate_manifest(src_dir, save_new_manifest)
InitGenerate ==
    /\ entry = "generate"
    /\ threadsArg = 0
    /\ prevThreads = 0
    /\ src \in SourceTrees
    /\ privileged = FALSE
    /\ old_manifest = PyDict(EmptyMap)
    /\ new_manifest = PyDict(EmptyMap)
    /\ cpu_count \in CpuCounts
    /\ saveArg \in BOOLEAN
    /\ outArg = FALSE
    /\ oldFile = NoFile
    /\ step = "BuildingNew"
    /\ phase = "walk"
    /\ InitRun

\* extract_differential(src_dir, old_manifest_file, output_dir, save_new_manifest)
\* on one of the source trees "trees".
InitExtractOn(trees, roots) ==
    /\ entry = "extract"
    /\ threadsArg = 0
    /\ prevThreads = 0
    /\ src \in trees
    /\ privileged \in roots
    /\ old_manifest = PyDict(EmptyMap)
    /\ new_manifest = PyDict(EmptyMap)
    /\ cpu_count = 0
    /\ saveArg \in BOOLEAN
    /\ outArg \in BOOLEAN
    /\ oldFile \in OldFiles
    /\ step = "LoadingOld"
    /\ phase = "-"
    /\ InitRun

InitExtract == InitExtractOn(SourceTrees, {FALSE})

Init == InitGenerate \/ InitExtract

Worker == \E i \in 1..MaxFiles : WorkerStart(i) \/ HashRead(i) \/ HashStat(i) \/ CopyRun(i)

Next ==
    \/ LoadOld
    \/ Walk
    \/ SubmitHash
    \/ \E i \in 1..MaxFiles : CollectHash(i)
    \/ ExitHashPool
    \/ DoDiff
    \/ SubmitCopy
    \/ \E i \in 1..MaxFiles : CollectCopy(i)
    \/ ExitCopyPool
    \/ SaveNew
    \/ Worker

Spec == Init /\ [][Next]_vars

\* ------------------------------------------- extract_differential, again

\* A second extract_differential(src_dir, old_manifest_file, output_dir,
\* save_new_manifest) with the arguments of the first, on the source tree,
\* the old manifest file and the output directory as the first left them.
Rerun ==
    /\ entry = "extract"
    /\ step \in {"Done", "Failed"}
    /\ entry' = "extract_again"
    /\ prevRun' = [step |-> step, added |-> Range(added), removed |-> Range(removed),
                   changed |-> Range(changed), written |-> written, out |-> out,
                   looked |-> \/ step = "Done" /\ outArg
                              \/ \E i \in DOMAIN futures : futures[i].fn = "copy"]
    /\ step' = "LoadingOld"
    /\ phase' = "-"
    /\ error' = NoError
    /\ old_manifest' = PyDict(EmptyMap)
    /\ new_manifest' = PyDict(EmptyMap)
    /\ file_paths' = <<>>
    /\ futures' = <<>>
    /\ collected' = {}
    /\ manifest' = EmptyMap
    /\ added' = <<>>
    /\ removed' = <<>>
    /\ changed' = <<>>
    /\ written' = {}
    /\ UNCHANGED <<cpu_count, threadsArg, prevThreads, src, privileged, outArg, saveArg,
                   oldFile, out, out0, saveFile, progress_queue>>

\* Source trees some of whose readable files the owner may not write (mode
\* 0444).
ModeTrees ==
    UNION {{[t EXCEPT !.readonly = r] :
                r \in SUBSET {p \in DOMAIN t.files : t.files[p] # Broken}} :
           t \in SourceTrees}

\* The first call, by an ordinary user or by root.
InitAgain == InitExtractOn(ModeTrees, BOOLEAN)

NextAgain == Next \/ Rerun

SpecAgain == InitAgain /\ [][NextAgain]_vars

\* ------------------------------------------------- build_manifest, directly

\* diff_manifests(build_manifest(D, t1), build_manifest(D, t2)) on a tree D
\* that no one modifies: a first call with any worker count, then Rebuild
\* keeps its manifest and calls again with any worker count.
InitBuild ==
    /\ entry = "build"
    /\ cpu_count = 0
    /\ threadsArg \in 1..MaxThreads
    /\ prevThreads = 0
    /\ src \in SourceTrees
    /\ privileged = FALSE
    /\ old_manifest = PyDict(EmptyMap)
    /\ new_manifest = PyDict(EmptyMap)
    /\ saveArg = FALSE
    /\ outArg = FALSE
    /\ oldFile = NoFile
    /\ step = "BuildingNew"
    /\ phase = "walk"
    /\ InitRun

Rebuild ==
    /\ entry = "build"
    /\ step = "Done"
    /\ entry' = "rebuild"
    /\ old_manifest' = new_manifest
    /\ prevThreads' = threadsArg
    /\ threadsArg' \in 1..MaxThreads
    /\ step' = "BuildingNew"
    /\ phase' = "walk"
    /\ UNCHANGED <<cpu_count, src, privileged, outArg, saveArg, oldFile, out, out0, saveFile,
                   new_manifest, file_paths, futures, collected, manifest, error,
                   diffVars, written, prevRun, progress_queue>>

HashWorker == \E i \in 1..MaxFiles : WorkerStart(i) \/ HashRead(i) \/ HashStat(i)

NextBuild ==
    \/ Walk
    \/ SubmitHash
    \/ \E i \in 1..MaxFiles : CollectHash(i)
    \/ ExitHashPool
    \/ HashWorker
    \/ Rebuild
    \/ DoDiff

SpecBuild == InitBuild /\ [][NextBuild]_vars

\* ----------------------------------------------------- copy_files, directly

\* copy_files(file_list, source_dir, output_dir, threads) with any worker
\* count, on a list of files of the tree (held in "added", as in the call
\* of extract_differential) and any output directory.
InitCopy ==
    /\ entry = "copy"
    /\ cpu_count = 0
    /\ threadsArg \in 1..MaxThreads
    /\ prevThreads = 0
    /\ src \in SourceTrees
    /\ privileged = FALSE
    /\ old_manifest = PyDict(EmptyMap)
    /\ new_manifest = PyDict(EmptyMap)
    /\ saveArg = FALSE
    /\ outArg = TRUE
    /\ oldFile = NoFile
    /\ saveFile = NoFile
    /\ file_paths = <<>>
    /\ futures = <<>>
    /\ collected = {}
    /\ manifest = EmptyMap
    /\ error = NoError
    /\ added \in {KeysInOrder(S) : S \in SUBSET WalkFiles(src)}
    /\ removed = <<>>
    /\ changed = <<>>
    /\ written = {}
    /\ prevRun = NoRun
    /\ progress_queue = <<>>
    /\ out \in OutTrees
    /\ out0 = out
    /\ step = "Copying"
    /\ phase = IF added = <<>> THEN "shutdown" ELSE "submit"

\* ------------------------------------------------------ runs to their end

\* Any call of an entry point, or of build_manifest or copy_files with a
\* worker count of its own. The operating system schedules every thread that
\* can run, the main thread and the pool's workers: a step that stays
\* possible is taken.
InitLive == Init \/ InitBuild \/ InitCopy

SpecLive == InitLive /\ [][Next]_vars /\ WF_vars(Next)

\* ------------------------------------------------- diff_manifests, directly

\* A direct call diff_manifests(man1, man2) on any two manifests over Paths:
\* every entry pairs any fingerprint with any size.
Digests == {HexDigest(<<1>>), HexDigest(<<2>>)}
Sizes == {1, 2}
Manifests ==
    {PyDict(f) : f \in UNION {[S -> [hash : Digests, size : Sizes]] : S \in SUBSET Paths}}

InitDiff ==
    /\ entry = "diff"
    /\ cpu_count = 0
    /\ threadsArg = 0
    /\ prevThreads = 0
    /\ src = [exists |-> FALSE, files |-> EmptyMap, readonly |-> {}]
    /\ privileged = FALSE
    /\ outArg = FALSE
    /\ oldFile = NoFile
    /\ step = "Diffing"
    /\ phase = "-"
    /\ InitRun
    /\ saveArg = FALSE
    /\ old_manifest \in Manifests
    /\ new_manifest \in Manifests

SpecDiff == InitDiff /\ [][DoDiff]_vars

\* C1: diff_manifests returns Added = keys(new) minus keys(old), Removed =
\* keys(old) minus keys(new), and Changed = the keys of both whose
\* fingerprints differ, whatever the sizes are.
C1_DiffContract ==
    (entry = "diff" /\ step = "Done") =>
        LET old == old_manifest.items
            new == new_manifest.items
        IN  /\ Range(added) = DOMAIN new \ DOMAIN old
            /\ Range(removed) = DOMAIN old \ DOMAIN new
            /\ Range(changed) =
                   {k \in DOMAIN old \cap DOMAIN new : old[k].hash # new[k].hash}

\* A diff that met both cases: same size and another fingerprint (changed),
\* same fingerprint and another size (not changed).
C1_Witness ==
    /\ entry = "diff"
    /\ step = "Done"
    /\ LET old == old_manifest.items
           new == new_manifest.items
       IN  /\ \E k \in DOMAIN old \cap DOMAIN new :
                  old[k].size = new[k].size /\ old[k].hash # new[k].hash
                  /\ k \in Range(changed)
           /\ \E k \in DOMAIN old \cap DOMAIN new :
                  old[k].size # new[k].size /\ old[k].hash = new[k].hash
                  /\ k \notin Range(changed)

\* --------------------------------------------- save / load, directly

\* load_manifest(path) after save_manifest(M, path), for any manifest M over
\* Paths whose sizes have one or several digits.
StoreSizes == {0, 7, 10, 123}
StoreManifests ==
    {PyDict(f) : f \in UNION {[S -> [hash : Digests, size : StoreSizes]] : S \in SUBSET Paths}}

InitStore ==
    /\ entry = "store"
    /\ cpu_count = 0
    /\ threadsArg = 0
    /\ prevThreads = 0
    /\ src = [exists |-> FALSE, files |-> EmptyMap, readonly |-> {}]
    /\ privileged = FALSE
    /\ outArg = FALSE
    /\ saveArg = TRUE
    /\ oldFile = NoFile
    /\ step = "SavingManifest"
    /\ phase = "-"
    /\ InitRun
    /\ old_manifest = PyDict(EmptyMap)
    /\ new_manifest \in StoreManifests

\* old = load_manifest(path) on the file just saved.
Reload ==
    /\ entry = "store"
    /\ step = "Done"
    /\ LET r == load_manifest(saveFile)
       IN  /\ error' = r.error
           /\ old_manifest' = r.value
    /\ step' = "Loaded"
    /\ UNCHANGED <<envVars, out, out0, saveFile, new_manifest, phase, file_paths,
                   futures, collected, manifest, diffVars, written>>

NextStore == SaveNew \/ Reload

SpecStore == InitStore /\ [][NextStore]_vars

\* ------------------------------------- generate_manifest beside a writer

\* A source file after another process has appended a byte to it.
GrownContentOf(p) == Append(ContentOf(p), 0)

\* Another process appends to a file of the tree while the build runs; no
\* lock of the build stops it.
ExternalWrite ==
    /\ step = "BuildingNew"
    /\ \E p \in DOMAIN src.files :
          /\ src.files[p] = ContentOf(p)
          /\ src' = [src EXCEPT !.files[p] = GrownContentOf(p)]
    /\ UNCHANGED <<entry, cpu_count, threadsArg, prevThreads, privileged, outArg, saveArg,
                   oldFile, prevRun, progress_queue, out, out0, saveFile, step, phase,
                   old_manifest, new_manifest, file_paths, futures, collected, manifest,
                   error, diffVars, written>>

NextWriter ==
    \/ Walk
    \/ SubmitHash
    \/ \E i \in 1..MaxFiles : CollectHash(i)
    \/ ExitHashPool
    \/ HashWorker
    \/ SaveNew
    \/ ExternalWrite

SpecWriter == InitGenerate /\ [][NextWriter]_vars

\* ------------------------------------------------------ front-end workers

\* The parameters of the entry points: "def generate_manifest(src_dir,
\* save_new_manifest=None)" and "def extract_differential(src_dir,
\* old_manifest_file, output_dir=None, save_new_manifest=None)".
Parameters(fn) ==
    IF fn = "generate_manifest" THEN {"src_dir", "save_new_manifest"}
    ELSE {"src_dir", "old_manifest_file", "output_dir", "save_new_manifest"}

\* The keyword arguments of the calls in worker_build_manifest and
\* worker_extract_diff.
Keywords(fn) ==
    IF fn = "generate_manifest" THEN {"save_new_manifest", "progress_queue"}
    ELSE {"output_dir", "save_new_manifest", "progress_queue"}

\* run_build_manifest wants a save path; run_extract_diff sets an output
\* directory and may go on without a save path. self.progress_queue is the
\* empty queue.Queue() of __init__.
InitGui ==
    /\ entry \in {"gui_generate", "gui_extract"}
    /\ cpu_count = 0
    /\ threadsArg = 0
    /\ prevThreads = 0
    /\ src \in SourceTrees
    /\ privileged = FALSE
    /\ old_manifest = PyDict(EmptyMap)
    /\ new_manifest = PyDict(EmptyMap)
    /\ saveArg \in (IF entry = "gui_generate" THEN {TRUE} ELSE BOOLEAN)
    /\ outArg = (entry = "gui_extract")
    /\ oldFile \in (IF entry = "gui_generate" THEN {NoFile} ELSE OldFiles)
    /\ step = "Idle"
    /\ phase = "-"
    /\ InitRun

\* The worker thread's call of the entry point inside "try: ... except
\* Exception": a keyword that is no parameter raises TypeError before the
\* function's body runs.
GuiCall ==
    /\ step = "Idle"
    /\ LET fn == IF entry = "gui_generate" THEN "generate_manifest"
                 ELSE "extract_differential"
           unexpected == Keywords(fn) \ Parameters(fn)
       IN  IF unexpected # {}
           THEN /\ step' = "Failed"
                /\ error' = Err("TypeError", CHOOSE k \in unexpected : TRUE)
                /\ UNCHANGED phase
           ELSE /\ step' = IF fn = "generate_manifest" THEN "BuildingNew" ELSE "LoadingOld"
                /\ phase' = IF fn = "generate_manifest" THEN "walk" ELSE "-"
                /\ UNCHANGED error
    /\ UNCHANGED <<envVars, out, out0, saveFile, old_manifest, new_manifest, file_paths,
                   futures, collected, manifest, diffVars, written>>

SpecGui == InitGui /\ [][GuiCall]_vars

\* ------------------------------------------------------------- the claims

\* What the claims expect of a file: the digest of all its bytes, and their
\* number.
FingerprintOf(content) == [sha256 |-> content]
Failed(i) == futures[i].st = "failed"

\* C2: an extract_differential with an output directory that completed wrote
\* exactly the paths of Added and Changed (of the diff of the loaded and the
\* built manifest) under the output directory, each with its source's bytes.
C2_CopiesExactlyTheDifferential ==
    (entry = "extract" /\ outArg /\ step = "Done") =>
        LET d == diff_manifests(old_manifest, new_manifest)
        IN  /\ written = d.added \cup d.changed
            /\ \A p \in written : p \in DOMAIN out /\ out[p] = FileNode(src.files[p])

\* C3: a file that was under the output root before the run and is not in
\* the copied list is still there with the content it had.
C3_NothingElseTouched ==
    \A q \in DOMAIN out0 :
        (out0[q].kind = "file" /\ q \notin Range(ToCopy)) =>
            q \in DOMAIN out /\ out[q] = out0[q]

\* C4: on an unchanged tree, build_manifest with one worker and with N > 1
\* workers return the same manifest, in whatever order the tasks finish.
C4_WorkerCountIndependent ==
    (entry = "rebuild" /\ step \in {"Diffing", "Done"}
        /\ prevThreads = 1 /\ threadsArg > 1) =>
        new_manifest = old_manifest

\* Both builds returned, the first with one worker on more files than
\* workers, the second with several.
C4_Witness ==
    /\ entry = "rebuild"
    /\ step = "Diffing"
    /\ prevThreads = 1
    /\ threadsArg > 1
    /\ Cardinality(Keys(new_manifest)) > 1

\* C5: the manifest build_manifest returns has one key per file the walk
\* yielded and no other, each with the fingerprint and size of its file.
C5_ManifestCoversWalk ==
    (step \in {"Diffing", "Copying", "SavingManifest", "Done"}) =>
        /\ new_manifest.type = "dict"
        /\ Keys(new_manifest) = WalkFiles(src)
        /\ \A p \in Keys(new_manifest) :
               new_manifest.items[p] =
                   [hash |-> FingerprintOf(src.files[p]), size |-> Len(src.files[p])]

\* A build of several files returned.
C5_Witness ==
    /\ entry = "generate"
    /\ step = "Done"
    /\ Cardinality(Keys(new_manifest)) = MaxFiles

\* C6: when a batch has failed, every task of the batch was dispatched and
\* has run to completion: each hash task whose file can be read has its
\* result, each copy task whose target can be written has written it.
C6_OtherTasksComplete ==
    (step = "Failed" /\ futures # <<>>) =>
        /\ Len(futures) = (IF futures[1].fn = "hash" THEN Len(file_paths) ELSE Len(ToCopy))
        /\ \A i \in DOMAIN futures :
               /\ Finished(futures[i])
               /\ futures[i].fn = "hash" =>
                      (Failed(i) <=> src.files[futures[i].path] = Broken)
               /\ futures[i].fn = "copy" =>
                      /\ Failed(i) <=> /\ IsDir(out0, futures[i].path)
                                       /\ IsDir(out0, Join(futures[i].path, futures[i].path))
                      /\ ~Failed(i) => \E q \in written :
                                          out[q] = FileNode(src.files[futures[i].path])

\* A copy batch failed, and a task whose result the main thread never
\* fetched completed all the same.
C6_Witness ==
    /\ step = "Failed"
    /\ \E i, j \in DOMAIN futures :
          /\ Failed(i) /\ i \in collected
          /\ futures[j].st = "done" /\ j \notin collected
          /\ futures[j].fn = "copy"

\* C7: the error of a failed batch carries every failed item.
C7_ErrorCarriesAllFailures ==
    (step = "Failed" /\ futures # <<>>) =>
        {futures[i].path : i \in {j \in DOMAIN futures : Failed(j)}} = {error.item}

\* The structural failures: no source root, no manifest file, or one that is
\* not JSON.
StructuralFailure ==
    \/ ~src.exists
    \/ entry = "extract" /\ (~oldFile.exists \/ oldFile.syntax = "invalid")
\* C8: with a source root that does not exist, or a manifest file that is
\* missing or not JSON, the run fails, and before any task is dispatched.
C8_StructuralFailuresAbort ==
    StructuralFailure =>
        /\ futures = <<>>
        /\ step \in {"LoadingOld", "BuildingNew", "Failed"}

\* A file of the tree cannot be read, or a hash task has failed.
HashFailure ==
    \/ src.exists /\ \E p \in DOMAIN src.files : src.files[p] = Broken
    \/ \E i \in DOMAIN futures : futures[i].fn = "hash" /\ Failed(i)
\* C9: once a hash task has failed, build_manifest returns no manifest, and
\* the run saves no manifest file, computes no diff and copies nothing.
C9_NoPartialManifest ==
    (entry \in {"generate", "extract"} /\ HashFailure) =>
        /\ step \in {"LoadingOld", "BuildingNew", "Failed"}
        /\ new_manifest = PyDict(EmptyMap)
        /\ saveFile = NoFile
        /\ added = <<>> /\ removed = <<>> /\ changed = <<>>
        /\ written = {}

\* A run asked to copy and to save failed in its build after some file had
\* been hashed and stored in the manifest under construction.
C9_Witness ==
    /\ entry = "extract"
    /\ outArg
    /\ saveArg
    /\ step = "Failed"
    /\ manifest # EmptyMap
    /\ \E i \in DOMAIN futures : futures[i].fn = "hash" /\ Failed(i)

\* A manifest file that is no manifest.
HasDuplicateKeys(file) ==
    \E i, j \in DOMAIN file.members : i # j /\ file.members[i][1] = file.members[j][1]
Malformed(file) ==
    /\ file.exists
    /\ \/ file.syntax # "object"
       \/ HasDuplicateKeys(file)
       \/ \E i \in DOMAIN file.members : DOMAIN file.members[i][2] # {"hash", "size"}
\* C10: load_manifest raises a parse error for a file whose top level is not
\* an object, whose entries lack "hash" or "size", or that repeats a key.
C10_LoadRejectsMalformed ==
    (entry = "extract" /\ Malformed(oldFile) /\ step # "LoadingOld") =>
        /\ step = "Failed"
        /\ error = Err("JSONDecodeError", "manifest")

\* C11: load_manifest(save_manifest(M)) is M: the same keys, and for each
\* key the same fingerprint and the same size.
C11_RoundTrip ==
    (entry = "store" /\ step = "Loaded") =>
        /\ error = NoError
        /\ old_manifest.type = "dict"
        /\ Keys(old_manifest) = Keys(new_manifest)
        /\ \A k \in Keys(new_manifest) :
               /\ DOMAIN old_manifest.items[k] = {"hash", "size"}
               /\ old_manifest.items[k].hash = new_manifest.items[k].hash
               /\ old_manifest.items[k].size = new_manifest.items[k].size

\* A manifest of several files, one of a size of several digits, was saved
\* with its keys in the other order than PathNames and loaded.
C11_Witness ==
    /\ entry = "store"
    /\ step = "Loaded"
    /\ Keys(new_manifest) = Paths
    /\ \E k \in Paths : new_manifest.items[k].size >= 10
    /\ saveFile.members[1][1] = PathNames[MaxFiles]

\* A list that names no item twice.
NoDuplicates(list) == \A i, j \in DOMAIN list : i # j => list[i] # list[j]
\* C12: the three lists of diff_manifests name no path twice and share no
\* path, added and changed hold keys of the new manifest, removed holds keys
\* of the old one, and a key with the same fingerprint in both is in none.
C12_DiffListsDisjoint ==
    (entry = "diff" /\ step = "Done") =>
        /\ NoDuplicates(added) /\ NoDuplicates(removed) /\ NoDuplicates(changed)
        /\ Range(added) \cap Range(removed) = {}
        /\ Range(added) \cap Range(changed) = {}
        /\ Range(removed) \cap Range(changed) = {}
        /\ Range(added) \cup Range(changed) \subseteq Keys(new_manifest)
        /\ Range(removed) \subseteq Keys(old_manifest)
        /\ \A k \in Keys(old_manifest) \cap Keys(new_manifest) :
               old_manifest.items[k].hash = new_manifest.items[k].hash =>
                   k \notin Range(added) \cup Range(removed) \cup Range(changed)

\* A diff with a key added and a key of both manifests whose fingerprint is
\* the same and whose size is not.
C12_Witness ==
    /\ entry = "diff"
    /\ step = "Done"
    /\ added # <<>>
    /\ \E k \in Keys(old_manifest) \cap Keys(new_manifest) :
          /\ old_manifest.items[k].hash = new_manifest.items[k].hash
          /\ old_manifest.items[k].size # new_manifest.items[k].size

\* C13: two builds of a tree that no one modifies, with any two worker
\* counts, diff to three empty lists.
C13_UnchangedTreeDiffsEmpty ==
    (entry = "rebuild" /\ step = "Done") =>
        /\ error = NoError
        /\ added = <<>>
        /\ removed = <<>>
        /\ changed = <<>>

\* Two builds of a tree of several files were compared, the second with
\* another worker count than the first.
C13_Witness ==
    /\ entry = "rebuild"
    /\ step = "Done"
    /\ prevThreads # threadsArg
    /\ Keys(old_manifest) = Paths
    /\ Keys(new_manifest) = Paths

\* C14: a second extract_differential on the same source tree, old manifest
\* and output directory ends as the first did, with the same added, removed
\* and changed sets, the same files copied, and the output directory as the
\* first run left it.
C14_RerunIdempotent ==
    (entry = "extract_again" /\ step \in {"Done", "Failed"}) =>
        /\ step = prevRun.step
        /\ Range(added) = prevRun.added
        /\ Range(removed) = prevRun.removed
        /\ Range(changed) = prevRun.changed
        /\ written = prevRun.written
        /\ out = prevRun.out

\* C15: the entry points take the progress queue the front-end passes, and
\* a run that got through its build has put (completed, total) pairs on it.
C15_ProgressReported ==
    /\ entry \in {"gui_generate", "gui_extract"} => error.type # "TypeError"
    /\ step \in {"Diffing", "Copying", "SavingManifest", "Done"} => progress_queue # <<>>

\* The step after step s of an extract_differential whose first two steps
\* are "first" and "second", when s ends without an error.
StepAfter(s, first, second) ==
    IF s = first THEN second
    ELSE IF s = second THEN "Diffing"
    ELSE IF s = "Diffing"
         THEN (IF outArg THEN "Copying" ELSE IF saveArg THEN "SavingManifest" ELSE "Done")
    ELSE IF s = "Copying" THEN (IF saveArg THEN "SavingManifest" ELSE "Done")
    ELSE "Done"
\* One transition of an extract_differential that keeps that order: Done and
\* Failed are final, a step is left for the next one or for Failed, with no
\* task of the step unfinished, and is left for Failed when it raised.
StepsInOrder(first, second) ==
    entry = "extract" =>
        /\ step \in {"Done", "Failed"} => step' = step
        /\ step' # step =>
              /\ step' \in {StepAfter(step, first, second), "Failed"}
              /\ \A i \in DOMAIN futures : Finished(futures[i])
              /\ (step' = "Failed") <=> (error' # NoError)

\* C16 as claimed: a run starts in BuildingNew, goes on to LoadingOld, then
\* Diffing, Copying if asked, SavingManifest if asked, and Done; an error in
\* a step leads to Failed and no later step runs.
C16_BuildThenLoad == [][StepsInOrder("BuildingNew", "LoadingOld")]_vars

\* C16, amended: a run starts in LoadingOld, goes on to BuildingNew, then
\* Diffing, Copying if asked, SavingManifest if asked, and Done; an error in
\* a step leads to Failed and no later step runs.
C16_LoadThenBuild ==
    /\ entry = "extract" => step = "LoadingOld"
    /\ [][StepsInOrder("LoadingOld", "BuildingNew")]_vars

\* A run went through all six steps: it copied a file and saved the manifest.
C16_Witness ==
    /\ entry = "extract"
    /\ step = "Done"
    /\ outArg
    /\ saveArg
    /\ written # {}
    /\ saveFile.exists

\* The bytes that were fed to the digest behind a fingerprint.
BytesFed(fingerprint) == fingerprint.sha256
\* C17: the size of an entry is the number of bytes fed to the digest of its
\* fingerprint, in every result of a hash task and in the manifest returned,
\* also when another process writes to the file while its task runs.
C17_SizeOfTheBytesHashed ==
    /\ \A i \in DOMAIN futures :
          (futures[i].fn = "hash" /\ futures[i].st = "done") =>
              futures[i].data.size = Len(BytesFed(futures[i].data.hash))
    /\ \A k \in Keys(new_manifest) :
          new_manifest.items[k].size = Len(BytesFed(new_manifest.items[k].hash))

\* C18: every run reaches Done or Failed, with any worker count and any
\* number of files, when every thread that can take a step takes one.
C18_Terminates == <>(step \in {"Done", "Failed"})

\* A build by one worker of more files than workers returned, all hashed.
C18_Witness ==
    /\ entry = "build"
    /\ step = "Done"
    /\ threadsArg = 1
    /\ Cardinality(Keys(new_manifest)) = MaxFiles
    /\ MaxFiles > 1

\* C19: in a run with an output directory and a save path, the manifest file
\* is written only when every file of the copy list has been copied, and a
\* run one of whose copy tasks failed leaves the file at the save path as
\* it was.
C19_SaveOnlyAfterCopies ==
    (entry = "extract" /\ outArg /\ saveArg) =>
        /\ saveFile # NoFile =>
              /\ step = "Done"
              /\ error = NoError
              /\ Cardinality(written) = Len(ToCopy)
        /\ (\E i \in DOMAIN futures : futures[i].fn = "copy" /\ Failed(i)) =>
              saveFile = NoFile

\* A run asked to copy and to save has failed in its copy batch after one
\* file had been copied, and has written no manifest file.
C19_Witness ==
    /\ entry = "extract"
    /\ outArg
    /\ saveArg
    /\ step = "Failed"
    /\ written # {}
    /\ \E i \in DOMAIN futures : futures[i].fn = "copy" /\ Failed(i)
    /\ ~saveFile.exists

\* C20: once build_manifest or copy_files has returned or raised, no task of
\* its pool is queued or running, and from then on the batch writes no file
\* and no task of it changes.
C20_NoTaskOutlivesItsCall ==
    /\ [](step \notin {"BuildingNew", "Copying"} =>
              \A i \in DOMAIN futures : Finished(futures[i]))
    /\ [][step \notin {"BuildingNew", "Copying"} =>
              /\ written' = written
              /\ futures' \in {futures, <<>>}]_vars

\* A copy_files with one worker and several files raised for a task that
\* failed, and a task queued behind it has run to its end.
C20_Witness ==
    /\ entry = "copy"
    /\ threadsArg = 1
    /\ step = "Failed"
    /\ \E i, j \in DOMAIN futures :
          /\ i < j
          /\ Failed(i)
          /\ i \in collected
          /\ j \notin collected
          /\ futures[j].st = "done"

====
